---- MODULE Spec2Model ----
(***************************************************************************)
(* Model of the security-baseline CLI (src/please.py) and of its provider  *)
(* operations (src/modules/aws_module.py).                                 *)
(*                                                                         *)
(* The cloud provider is the environment: every provider call gets an      *)
(* answer drawn from a small set (a payload, a ClientError with a code, or *)
(* an unclassified exception).  Python strings are TLA+ strings, f-strings *)
(* are concatenations, None is the value PyNone.                           *)
(***************************************************************************)
EXTENDS Naturals, Sequences, FiniteSets, TLC

VARIABLES
    run,        \* the operation main() dispatched to
    pc,         \* position of the run: "start", "loop", "done", "raised"
    raisedBy,   \* the function an exception escaped from ("" when none)
    pages,      \* provider: the organization listing, a sequence of pages
    accounts,   \* the value list_active_accounts returned to the run
    idx,        \* number of accounts the account loop has finished
    bidx,       \* number of buckets of the current account finished
    blist,      \* the bucket names get_s3_bucket_names returned for the account
    buckets,    \* provider: bucket names of each account, as list_buckets answers
    loc,        \* provider: LocationConstraint answer of each bucket
    logcfg,     \* provider: logging target of each bucket ("" = not enabled)
    notif,      \* provider: notification configuration of each bucket
    contacts,   \* provider: alternate contact of each account and type
    last,       \* what the last finished step did: calls issued, values returned
    report,     \* per account of the run: call outcomes seen, log levels written
    runNo,      \* how many runs have been started against this provider state
    nFaults,    \* how many failures the provider has answered with so far
    args,       \* the flags given on the command line (argparse dest names)
    calllog,    \* provider: every call the current run has issued, in order
    gd,         \* archive_guardduty_findings: its position, its locals, the provider
    prev        \* provider: the calls of the run before this one, and the failures
                \* it had answered with when that run ended

vars == <<run, pc, raisedBy, pages, accounts, idx, bidx, blist, buckets, loc,
          logcfg, notif, contacts, last, report, runNo, nFaults, args,
          calllog, gd, prev>>

----------------------------------------------------------------------------
(* Bounds of the model *)

MaxPages == 2
MaxPageLen == 2
MaxAccounts == 2
MaxRuns == 2
MaxFaults == 1

----------------------------------------------------------------------------
(* Python values and strings *)

PyNone == [t |-> "none", s |-> ""]
PyStr(s) == [t |-> "str", s |-> s]

\* str(x) inside an f-string
Fmt(v) == IF v.t = "none" THEN "None" ELSE v.s

\* s.startswith(p)
StartsWith(s, p) == Len(s) >= Len(p) /\ SubSeq(s, 1, Len(p)) = p

\* p in s
Contains(s, p) ==
    \E i \in 1..Len(s) : i + Len(p) - 1 <= Len(s) /\ SubSeq(s, i, i + Len(p) - 1) = p

----------------------------------------------------------------------------
(* Provider answers.  kind "ok" carries a payload; "client" is a           *)
(* botocore ClientError with its error code in val; "other" is any other   *)
(* exception with its message in val.                                      *)

Ok(v) == [kind |-> "ok", val |-> v]
ClientError(code) == [kind |-> "client", val |-> code]
OtherError(msg) == [kind |-> "other", val |-> msg]

\* Session(profile_name=...) and session.client(...): no provider call is made,
\* but either may raise (ProfileNotFound, UnknownServiceError, ...).
SetupAnswers == {"ok", "session_fails", "client_fails"}

----------------------------------------------------------------------------
(* list_active_accounts *)

AccountIds == {"111111111111", "222222222222", "333333333333"}
Account(id, st) == [Id |-> id, Status |-> st]

\* for page in paginator.paginate(): for account in page["Accounts"]:
\*     if account["Status"] == "ACTIVE": accounts.append(account)
ActiveOfMut(page) == page
RECURSIVE ActiveOf(_)
ActiveOf(page) ==
    IF page = <<>> THEN <<>>
    ELSE (IF Head(page).Status = "ACTIVE" THEN <<Head(page)>> ELSE <<>>)
         \o ActiveOf(Tail(page))

RECURSIVE CollectPages(_)
CollectPages(ps) ==
    IF ps = <<>> THEN <<>> ELSE ActiveOf(Head(ps)) \o CollectPages(Tail(ps))

\* The except clause "except client.exceptions.AWSOrganizationsNotInUseException"
\* is evaluated when an exception reaches it; with `client` not yet assigned the
\* evaluation itself raises UnboundLocalError, which leaves the function.
ListHandler(setup) ==
    IF setup \in {"session_fails", "client_fails"}
    THEN [raised |-> TRUE, exc |-> "UnboundLocalError", ret |-> <<>>]
    ELSE [raised |-> FALSE, exc |-> "", ret |-> <<>>]

\* setup: how session and client construction end; failAt: the page whose fetch
\* fails (0 = none); ps: the pages the provider holds.
list_active_accounts(setup, failAt, ps) ==
    IF setup # "ok" THEN ListHandler(setup)
    ELSE IF failAt \in 1..Len(ps) THEN ListHandler("ok")
    ELSE [raised |-> FALSE, exc |-> "", ret |-> CollectPages(ps)]

----------------------------------------------------------------------------
(* The calls a step issues and what a step leaves behind *)

NoBody == [TargetBucket |-> "", TargetPrefix |-> "", PartitionDateSource |-> ""]

Call(api, acct, bucket, arg, ok) ==
    [api |-> api, acct |-> acct, bucket |-> bucket, arg |-> arg, ok |-> ok,
     body |-> NoBody, events |-> <<>>]

NoFault == [kind |-> "none", val |-> ""]

\* Failures the provider may answer with on any call of the account API and of
\* the storage API: access denied, another classified error, anything else.
ContactFaults == {ClientError("AccessDeniedException"),
                  ClientError("TooManyRequestsException"),
                  OtherError("connection reset")}
S3Faults == {ClientError("AccessDenied"), ClientError("NoSuchBucket"),
             OtherError("connection reset")}

SetupMessage(setup) ==
    IF setup = "session_fails" THEN "The config profile could not be found"
    ELSE "Unknown service"
\* Neither is a ClientError: both reach the "except Exception" clause
SetupError(setup) == OtherError(SetupMessage(setup))

\* One function invocation meets at most one failure, since the first one ends
\* it: an injection names the place (site) and the failure.
NoInj == [site |-> "none", setup |-> "ok", fault |-> NoFault, n |-> 0]
SetupInj(site) ==
    {[site |-> site, setup |-> "session_fails", fault |-> NoFault, n |-> 0]}
CallInj(sites, faults) ==
    {[site |-> c, setup |-> "ok", fault |-> f, n |-> 0] : c \in sites, f \in faults}
\* a failure of the n-th page of a paginated listing
PageInj(ns, faults) ==
    {[site |-> "page", setup |-> "ok", fault |-> f, n |-> k] : k \in ns, f \in faults}
Inj(sites, faults) == {NoInj} \cup SetupInj("setup") \cup CallInj(sites, faults)
\* For list_active_accounts, where it matters which of the two raised
ListSetupInj ==
    {[site |-> "setup", setup |-> s, fault |-> NoFault, n |-> 0] :
        s \in SetupAnswers \ {"ok"}}
SetupAt(inj, site) == IF inj.site = site THEN inj.setup ELSE "ok"
FaultAt(inj, site) == IF inj.site = site THEN inj.fault ELSE NoFault
Cost(inj) == IF inj = NoInj THEN 0 ELSE 1

----------------------------------------------------------------------------
(* Alternate contacts *)

ContactTypes == <<"BILLING", "OPERATIONS", "SECURITY">>

\* A contact as Python sees it: None, or a dict (s names it; "" is the empty dict)
ContactDict(s) == [t |-> "dict", s |-> s]
ConfigContact(type) == ContactDict("config-" \o type)
OldContact(type) == ContactDict("old-" \o type)

\* please.py format_contact
format_contact(contact) ==
    IF contact.t = "none" \/ contact.s = "" THEN "Not Set"
    ELSE "\tName: " \o contact.s

\* What the provider answers to get_alternate_contact(type) of account a: the
\* injected fault, else not-found when no contact is set, else the record.
ContactAnswer(cs, a, i, fault) ==
    IF fault # NoFault THEN fault
    ELSE IF cs[a][i].t = "none" THEN ClientError("ResourceNotFoundException")
    ELSE Ok(cs[a][i].s)

\* fetch_contact: not-found is caught and becomes None; anything else leaves it
fetch_contactMut(ans) ==
    IF ans.kind = "ok" THEN [raised |-> FALSE, exc |-> ans, value |-> ContactDict(ans.val)]
    ELSE [raised |-> TRUE, exc |-> ans, value |-> PyNone]
fetch_contact(ans) ==
    IF ans.kind = "ok" THEN [raised |-> FALSE, exc |-> ans, value |-> ContactDict(ans.val)]
    ELSE IF ans = ClientError("ResourceNotFoundException")
         THEN [raised |-> FALSE, exc |-> ans, value |-> PyNone]
    ELSE [raised |-> TRUE, exc |-> ans, value |-> PyNone]

\* The except clauses of get_alternate_contacts: the returned "Error" value
ContactErrorValue(exc) ==
    IF exc.kind = "client"
    THEN (IF exc.val = "AccessDeniedException" THEN "AccessDenied" ELSE exc.val)
    ELSE exc.val

ContactsResult(a, hasError, err, vals) ==
    [AccountID |-> a, hasError |-> hasError, Error |-> err,
     BillingContact |-> vals[1], OperationsContact |-> vals[2],
     SecurityContact |-> vals[3]]

\* get_alternate_contacts(account_id, region): setup is how Session/client end,
\* faults[i] the fault injected into the read of ContactTypes[i].
get_alternate_contacts(cs, a, setup, faults) ==
    LET f(i) == fetch_contact(ContactAnswer(cs, a, i, faults[i]))
        \* the first read that raises, 4 when none does
        stop == IF f(1).raised THEN 1 ELSE IF f(2).raised THEN 2
                ELSE IF f(3).raised THEN 3 ELSE 4
        issued == IF stop = 4 THEN 3 ELSE stop
        calls == [i \in 1..issued |->
                    Call("get_alternate_contact", a, "", ContactTypes[i],
                         ContactAnswer(cs, a, i, faults[i]).kind = "ok")]
        none == [i \in 1..3 |-> PyNone]
    IN  IF setup # "ok"
        THEN [calls |-> <<>>, exc |-> SetupError(setup),
              ret |-> ContactsResult(a, TRUE, ContactErrorValue(SetupError(setup)), none)]
        ELSE IF stop < 4
        THEN [calls |-> calls, exc |-> f(stop).exc,
              ret |-> ContactsResult(a, TRUE, ContactErrorValue(f(stop).exc), none)]
        ELSE [calls |-> calls, exc |-> NoFault,
              ret |-> ContactsResult(a, FALSE, "", [i \in 1..3 |-> f(i).value])]

\* The except clauses of set_alternate_contacts: "except ClientError" and
\* "except Exception" both log and return False, so nothing leaves the function.
SetContactsHandlerMut(exc) ==
    [raised |-> exc.kind # "client", ret |-> FALSE]
SetContactsHandler(exc) == [raised |-> FALSE, ret |-> FALSE]

\* set_alternate_contacts(account_id, region, config): the three writes in
\* order; the first write that fails ends the function with False.
SetStopMut(faults) == 4
SetStop(faults) ==
    IF faults[1] # NoFault THEN 1 ELSE IF faults[2] # NoFault THEN 2
    ELSE IF faults[3] # NoFault THEN 3 ELSE 4

set_alternate_contacts(cs, a, setup, faults) ==
    LET stop == SetStop(faults)
        issued == IF stop = 4 THEN 3 ELSE stop
        written == {i \in 1..3 : i < stop /\ faults[i] = NoFault}
        \* the exception that reaches the except clauses, NoFault when none
        first == IF \E i \in 1..3 : faults[i] # NoFault
                 THEN faults[CHOOSE i \in 1..3 : faults[i] # NoFault
                               /\ \A j \in 1..(i-1) : faults[j] = NoFault]
                 ELSE NoFault
        calls == [i \in 1..issued |->
                    Call("put_alternate_contact", a, "", ContactTypes[i],
                         faults[i] = NoFault)]
    IN  IF setup # "ok"
        THEN [calls |-> <<>>, exc |-> SetupError(setup),
              raised |-> SetContactsHandler(SetupError(setup)).raised,
              ret |-> SetContactsHandler(SetupError(setup)).ret, cs |-> cs]
        ELSE [calls |-> calls,
              exc |-> first,
              raised |-> first # NoFault /\ SetContactsHandler(first).raised,
              ret |-> IF first # NoFault THEN SetContactsHandler(first).ret
                      ELSE TRUE,
              cs |-> [cs EXCEPT ![a] =
                         [i \in 1..3 |-> IF i \in written
                                         THEN ConfigContact(ContactTypes[i])
                                         ELSE cs[a][i]]]]

----------------------------------------------------------------------------
(* Storage buckets: the provider's side *)

\* config["aws"]["security_event_collection_prefix"] and
\* config["aws"]["controltower_s3_access_logs"]
Prefix == "sec-logs"
ControlTowerLogs == "ct-access-logs"
ManagementAccount == "111111111111"

\* f"{prefix}-{account['Id']}-{bucket_region}"
ConventionalName(prefix, a, region) == prefix \o "-" \o a \o "-" \o region

\* The response of get_bucket_location: a dict that may lack the
\* LocationConstraint key, or hold None or a region name under it.
LocationResponse(present, value) == [present |-> present, value |-> value]
\* dict.get(key, default)
DictGet(resp, default) == IF resp.present THEN resp.value ELSE default

\* The region a bucket lives in, as the provider documents the answer: no
\* constraint means us-east-1.
HomeRegion(resp) ==
    IF resp.present /\ resp.value.t = "str" THEN resp.value.s ELSE "us-east-1"

\* The notification configuration of a bucket: three lists of subscriptions
NotificationConfig(topics, queues, lambdas) ==
    [TopicConfigurations |-> topics, QueueConfigurations |-> queues,
     LambdaFunctionConfigurations |-> lambdas]

\* The buckets an account may hold.  Names are unique provider-wide, so the
\* control-tower log bucket exists in one account only.
SelfUsEast(a) == ConventionalName(Prefix, a, "us-east-1")
SelfEuWest(a) == ConventionalName(Prefix, a, "eu-west-1")
DataBucket(a) == "data-" \o a
LegacyBucket(a) == "legacy-" \o a
ArchiveBucket(a) == "archive-" \o a

\* The ways the accounts of an organization are provisioned: every account
\* gets the buckets of the same template.
BucketLists(a) ==
    <<  <<DataBucket(a)>>,
        <<SelfUsEast(a), DataBucket(a)>>,
        <<LegacyBucket(a), SelfEuWest(a)>>,
        IF a = ManagementAccount THEN <<ControlTowerLogs, DataBucket(a)>>
        ELSE <<ArchiveBucket(a)>>  >>
NumTemplates == Len(BucketLists(ManagementAccount))

IsSelfUsEast(b) == \E a \in AccountIds : b = SelfUsEast(a)
IsSelfEuWest(b) == \E a \in AccountIds : b = SelfEuWest(a)
IsLegacy(b) == \E a \in AccountIds : b = LegacyBucket(a)
IsArchive(b) == \E a \in AccountIds : b = ArchiveBucket(a)

\* What the provider holds for each bucket when the first run starts
InitialLocation(b) ==
    IF IsSelfUsEast(b) THEN LocationResponse(TRUE, PyNone)
    ELSE IF IsLegacy(b) THEN LocationResponse(FALSE, PyNone)
    ELSE IF IsArchive(b) THEN LocationResponse(TRUE, PyNone)
    ELSE IF b = ControlTowerLogs THEN LocationResponse(TRUE, PyStr("us-west-2"))
    ELSE LocationResponse(TRUE, PyStr("eu-west-1"))

InitialLogging(b) == IF IsLegacy(b) THEN "legacy-logs" ELSE ""

InitialNotif(b) ==
    IF IsLegacy(b) THEN NotificationConfig(<<"arn:aws:sns:topic">>, <<>>, <<>>)
    ELSE IF IsSelfUsEast(b) THEN NotificationConfig(<<>>, <<"arn:aws:sqs:queue">>, <<>>)
    ELSE IF b = ControlTowerLogs
         THEN NotificationConfig(<<>>, <<>>, <<"arn:aws:lambda:fn">>)
    ELSE NotificationConfig(<<>>, <<>>, <<>>)

----------------------------------------------------------------------------
(* Storage operations of aws_module.py.  Each takes the provider state it   *)
(* reads and the faults injected into its calls, and yields the calls it   *)
(* issued, the exception that ended it (NoFault when none), the value it   *)
(* returned and whether it logged an error.                                *)

ErrorTextMut(exc) == "Error: request failed"
ErrorText(exc) == "Error: " \o exc.val

\* get_s3_bucket_names: [] on any failure
get_s3_bucket_names(B, a, setup, fault) ==
    IF setup # "ok"
    THEN [calls |-> <<>>, exc |-> SetupError(setup), ret |-> <<>>, level |-> "error"]
    ELSE [calls |-> <<Call("list_buckets", a, "", "", fault = NoFault)>>,
          exc |-> fault,
          ret |-> IF fault = NoFault THEN B[a] ELSE <<>>,
          level |-> IF fault = NoFault THEN "info" ELSE "error"]

\* location = response.get("LocationConstraint"); None becomes "us-east-1"
NormalizeRegionMut(resp) == DictGet(resp, PyNone)
NormalizeRegion(resp) ==
    LET location == DictGet(resp, PyNone)
    IN  IF location = PyNone THEN PyStr("us-east-1") ELSE location

\* get_s3_bucket_region(account_id, bucket_name)
get_s3_bucket_region(L, a, b, setup, fault) ==
    IF setup # "ok"
    THEN [calls |-> <<>>, exc |-> SetupError(setup),
          ret |-> PyStr(ErrorText(SetupError(setup))), level |-> "error"]
    ELSE IF fault # NoFault
    THEN [calls |-> <<Call("get_bucket_location", a, b, "", FALSE)>>,
          exc |-> fault, ret |-> PyStr(ErrorText(fault)), level |-> "error"]
    ELSE [calls |-> <<Call("get_bucket_location", a, b, "", TRUE)>>,
          exc |-> NoFault, ret |-> NormalizeRegion(L[b]), level |-> "info"]

\* bucket_region = response.get("LocationConstraint", "us-east-1"), then the
\* None check, inside get_s3_access_logging
LoggingRegion(resp) ==
    LET bucket_region == DictGet(resp, PyStr("us-east-1"))
    IN  IF bucket_region = PyNone THEN PyStr("us-east-1") ELSE bucket_region

\* get_s3_access_logging(account_id, bucket_name): lfault is injected into
\* get_bucket_location, gfault into get_bucket_logging (issued through the
\* client of the bucket's region, which arg records).
get_s3_access_logging(L, G, a, b, setup, lfault, gfault) ==
    LET locCall(ok) == Call("get_bucket_location", a, b, "", ok)
        logCall(ok) == Call("get_bucket_logging", a, b, Fmt(LoggingRegion(L[b])), ok)
    IN  IF setup # "ok"
        THEN [calls |-> <<>>, exc |-> SetupError(setup),
              ret |-> ErrorText(SetupError(setup)),
              level |-> "error", region |-> PyStr("unresolved")]
        ELSE IF lfault # NoFault
        THEN [calls |-> <<locCall(FALSE)>>, exc |-> lfault, ret |-> ErrorText(lfault),
              level |-> "error", region |-> PyStr("unresolved")]
        ELSE IF gfault # NoFault
        THEN [calls |-> <<locCall(TRUE), logCall(FALSE)>>, exc |-> gfault,
              ret |-> ErrorText(gfault),
              level |-> "error", region |-> LoggingRegion(L[b])]
        ELSE [calls |-> <<locCall(TRUE), logCall(TRUE)>>, exc |-> NoFault,
              ret |-> IF G[b] # ""
                      THEN "Access logging configured. Destination bucket: " \o G[b]
                      ELSE "Access Logging Not Configured",
              level |-> "info", region |-> LoggingRegion(L[b])]

\* The BucketLoggingStatus that set_s3_access_logging sends
LoggingStatus(target) ==
    [TargetBucket |-> target, TargetPrefix |-> "", PartitionDateSource |-> "EventTime"]

\* set_s3_access_logging(account_id, bucket_name, access_logging_bucket):
\* rsetup and rfault go to its own get_s3_bucket_region, pfault to
\* put_bucket_logging.  G is the provider's logging state, returned updated.
set_s3_access_logging(L, G, a, b, target, setup, rsetup, rfault, pfault) ==
    LET r == get_s3_bucket_region(L, a, b, rsetup, rfault)
        put(ok) == [Call("put_bucket_logging", a, b, target, ok)
                        EXCEPT !.body = LoggingStatus(target)]
    IN  IF setup # "ok"
        THEN [calls |-> <<>>, exc |-> SetupError(setup),
              ret |-> ErrorText(SetupError(setup)), level |-> "error", G |-> G]
        ELSE IF r.ret.t = "none"
        THEN \* None.startswith raises AttributeError, caught by except Exception
             [calls |-> r.calls,
              exc |-> OtherError("'NoneType' object has no attribute 'startswith'"),
              ret |-> "Error: 'NoneType' object has no attribute 'startswith'",
              level |-> "error", G |-> G]
        ELSE IF StartsWith(r.ret.s, "Error")
        THEN [calls |-> r.calls, exc |-> r.exc,
              ret |-> "Error: Unable to determine region for bucket " \o b
                       \o ". " \o r.ret.s,
              level |-> "error", G |-> G]
        ELSE IF pfault # NoFault
        THEN [calls |-> r.calls \o <<put(FALSE)>>, exc |-> pfault,
              ret |-> ErrorText(pfault), level |-> "error", G |-> G]
        ELSE [calls |-> r.calls \o <<put(TRUE)>>, exc |-> NoFault,
              ret |-> "Access logging configured for bucket '" \o b
                       \o "'. Logs will be stored in '" \o target \o "'.",
              level |-> "info", G |-> [G EXCEPT ![b] = target]]

\* The events set_s3_bucket_notifications subscribes the queue to
NotificationEventsMut == <<"s3:ObjectCreated:*">>
NotificationEvents ==
    <<"s3:ReducedRedundancyLostObject", "s3:Replication:OperationFailedReplication">>

\* set_s3_bucket_notifications(account_id, bucket_name, prefix): N is the
\* provider's notification state, returned updated (the put replaces the whole
\* configuration of the bucket).
set_s3_bucket_notifications(L, N, a, b, prefix, setup, rsetup, rfault, pfault) ==
    LET r == get_s3_bucket_region(L, a, b, rsetup, rfault)
        queue_name == ConventionalName(prefix, a, Fmt(r.ret))
        queue_arn == "arn:aws:sqs:" \o Fmt(r.ret) \o ":" \o a \o ":" \o queue_name
        put(ok) == [Call("put_bucket_notification_configuration", a, b, queue_arn, ok)
                        EXCEPT !.events = NotificationEvents]
    IN  IF setup # "ok"
        THEN [calls |-> <<>>, exc |-> SetupError(setup),
              ret |-> ErrorText(SetupError(setup)), level |-> "error", N |-> N]
        ELSE IF r.ret.t = "none"
        THEN [calls |-> r.calls,
              exc |-> OtherError("'NoneType' object has no attribute 'startswith'"),
              ret |-> "Error: 'NoneType' object has no attribute 'startswith'",
              level |-> "error", N |-> N]
        ELSE IF StartsWith(r.ret.s, "Error")
        THEN [calls |-> r.calls, exc |-> r.exc,
              ret |-> "Error: Unable to determine region for bucket " \o b
                       \o ". " \o r.ret.s,
              level |-> "error", N |-> N]
        ELSE IF pfault # NoFault
        THEN [calls |-> r.calls \o <<put(FALSE)>>, exc |-> pfault,
              ret |-> ErrorText(pfault), level |-> "error", N |-> N]
        ELSE [calls |-> r.calls \o <<put(TRUE)>>, exc |-> NoFault,
              ret |-> "Notification policy configured for bucket '" \o b
                       \o "'. Target queue ARN: " \o queue_arn \o ".",
              level |-> "info",
              N |-> [N EXCEPT ![b] = NotificationConfig(<<>>, <<queue_arn>>, <<>>)]]

\* if config.get("TopicConfigurations") or config.get("QueueConfigurations")
\*    or config.get("LambdaFunctionConfigurations")
NotificationsConfiguredMut(cfg) == cfg.QueueConfigurations # <<>>
NotificationsConfiguredNever(cfg) == FALSE
NotificationsConfigured(cfg) ==
    \/ cfg.TopicConfigurations # <<>>
    \/ cfg.QueueConfigurations # <<>>
    \/ cfg.LambdaFunctionConfigurations # <<>>

\* get_s3_bucket_notifications(account_id, bucket_name, prefix): gfault goes to
\* get_bucket_notification_configuration, w to set_s3_bucket_notifications
\* (w = <<setup, rsetup, rfault, pfault>>), whose return value is dropped.
get_s3_bucket_notifications(L, N, a, b, prefix, setup, gfault, w) ==
    LET get(ok) == Call("get_bucket_notification_configuration", a, b, "", ok)
        set == set_s3_bucket_notifications(L, N, a, b, prefix, w[1], w[2], w[3], w[4])
    IN  IF setup # "ok"
        THEN [calls |-> <<>>, exc |-> SetupError(setup),
              ret |-> ErrorText(SetupError(setup)), level |-> "error", N |-> N,
              wrote |-> FALSE, setret |-> ""]
        ELSE IF gfault # NoFault
        THEN [calls |-> <<get(FALSE)>>, exc |-> gfault, ret |-> ErrorText(gfault),
              level |-> "error", N |-> N, wrote |-> FALSE, setret |-> ""]
        ELSE IF NotificationsConfigured(N[b])
        THEN [calls |-> <<get(TRUE)>>, exc |-> NoFault, ret |-> "Notifications enabled",
              level |-> "info", N |-> N, wrote |-> FALSE, setret |-> ""]
        ELSE [calls |-> <<get(TRUE)>> \o set.calls, exc |-> set.exc,
              ret |-> "Notifications Not Enabled",
              level |-> set.level, N |-> set.N, wrote |-> TRUE, setret |-> set.ret]

----------------------------------------------------------------------------
(* The runs of please.py *)

AccountSeq == <<"111111111111", "222222222222", "333333333333">>

NoResult == [calls |-> <<>>, exc |-> NoFault, ret |-> PyNone, level |-> ""]

NoStep == [fn |-> "", acct |-> "", bucket |-> "", calls |-> <<>>, level |-> "",
           verdict |-> "", target |-> "", didRead |-> FALSE, didWrite |-> FALSE,
           r1 |-> NoResult, r2 |-> NoResult, r3 |-> NoResult, inj |-> <<>>]

RECURSIVE AnyCall(_, _)
AnyCall(calls, ok) ==
    calls # <<>> /\ (Head(calls).ok = ok \/ AnyCall(Tail(calls), ok))

\* What a step adds to the account's entry of the report
Seen(step) ==
    (IF AnyCall(step.calls, TRUE) THEN {"ok"} ELSE {})
    \cup (IF \/ AnyCall(step.calls, FALSE)
             \/ step.r1.exc # NoFault \/ step.r2.exc # NoFault \/ step.r3.exc # NoFault
          THEN {"fail"} ELSE {})

Reported(rep, i, step) ==
    [rep EXCEPT ![i] = [seen |-> @.seen \cup Seen(step),
                        levels |-> @.levels \cup {step.level}]]

CurrentAccount == accounts[idx + 1].Id

\* Failures of a page of list_accounts
ListFaults == {ClientError("AccessDeniedException"),
               ClientError("AWSOrganizationsNotInUseException"),
               OtherError("connection reset")}

\* The first lines of every run: accounts = list_active_accounts(...).  An
\* exception that leaves list_active_accounts leaves the run and main().
Start ==
    /\ pc = "start"
    /\ \E inj \in {NoInj} \cup ListSetupInj \cup PageInj(1..Len(pages), ListFaults) :
          /\ nFaults + Cost(inj) <= MaxFaults
          /\ LET failAt == inj.n
                 r == list_active_accounts(inj.setup, failAt, pages)
             IN  /\ accounts' = r.ret
                 /\ pc' = IF r.raised THEN "raised" ELSE "account"
                 /\ raisedBy' = IF r.raised THEN "list_active_accounts" ELSE ""
                 /\ report' = [i \in 1..Len(r.ret) |-> [seen |-> {}, levels |-> {}]]
                 /\ last' = [NoStep EXCEPT !.fn = "list_active_accounts",
                                           !.inj = <<inj>>,
                                           !.r1 = [calls |-> <<>>,
                                                   exc |-> IF inj.site = "setup"
                                                           THEN SetupError(inj.setup)
                                                           ELSE inj.fault,
                                                   ret |-> r.ret,
                                                   level |-> IF inj = NoInj THEN "info"
                                                             ELSE "error"]]
          /\ nFaults' = nFaults + Cost(inj)
    /\ idx' = 0 /\ bidx' = 0 /\ blist' = <<>>
    /\ UNCHANGED <<run, pages, buckets, loc, logcfg, notif, contacts, runNo>>
    /\ UNCHANGED args
    /\ calllog' = <<>>
    /\ UNCHANGED gd
    /\ UNCHANGED prev

\* list_accounts: one log line per account returned
ListStep ==
    /\ run = "list" /\ pc = "account" /\ idx < Len(accounts)
    /\ idx' = idx + 1
    /\ last' = [NoStep EXCEPT !.fn = "list_accounts", !.acct = CurrentAccount,
                              !.level = "info"]
    /\ report' = Reported(report, idx + 1, last')
    /\ UNCHANGED <<run, pc, raisedBy, pages, accounts, bidx, blist, buckets, loc,
                   logcfg, notif, contacts, runNo, nFaults>>
    /\ UNCHANGED args
    /\ UNCHANGED calllog
    /\ UNCHANGED gd
    /\ UNCHANGED prev

\* get_alternate_contacts_for_all_accounts: one iteration of the account loop
GetContactsStep ==
    /\ run = "get_contacts" /\ pc = "account" /\ idx < Len(accounts)
    /\ \E inj \in Inj({"BILLING", "OPERATIONS", "SECURITY"}, ContactFaults) :
          /\ nFaults + Cost(inj) <= MaxFaults
          /\ LET a == CurrentAccount
                 r == get_alternate_contacts(contacts, a, inj.setup,
                                             [i \in 1..3 |-> FaultAt(inj, ContactTypes[i])])
                 step == [NoStep EXCEPT
                            !.fn = "get_alternate_contacts", !.acct = a,
                            !.inj = <<inj>>,
                            !.calls = r.calls,
                            !.level = IF r.ret.hasError THEN "error" ELSE "info",
                            !.verdict =
                               IF r.ret.hasError THEN r.ret.Error
                               ELSE format_contact(r.ret.BillingContact) \o "|"
                                    \o format_contact(r.ret.OperationsContact) \o "|"
                                    \o format_contact(r.ret.SecurityContact),
                            !.didRead = TRUE,
                            !.r1 = [calls |-> r.calls, exc |-> r.exc, ret |-> r.ret,
                                    level |-> IF r.ret.hasError THEN "error" ELSE "info"]]
             IN  /\ last' = step
                 /\ report' = Reported(report, idx + 1, step)
          /\ nFaults' = nFaults + Cost(inj)
    /\ idx' = idx + 1
    /\ UNCHANGED <<run, pc, raisedBy, pages, accounts, bidx, blist, buckets, loc,
                   logcfg, notif, contacts, runNo>>
    /\ UNCHANGED args
    /\ calllog' = calllog \o last'.calls
    /\ UNCHANGED gd
    /\ UNCHANGED prev

\* set_alternate_contacts_for_all_accounts: one iteration of the account loop
SetContactsStep ==
    /\ run = "set_contacts" /\ pc = "account" /\ idx < Len(accounts)
    /\ \E inj \in Inj({"BILLING", "OPERATIONS", "SECURITY"}, ContactFaults) :
          /\ nFaults + Cost(inj) <= MaxFaults
          /\ LET a == CurrentAccount
                 r == set_alternate_contacts(contacts, a, inj.setup,
                                             [i \in 1..3 |-> FaultAt(inj, ContactTypes[i])])
                 step == [NoStep EXCEPT
                            !.fn = "set_alternate_contacts", !.acct = a,
                            !.inj = <<inj>>,
                            !.calls = r.calls,
                            !.level = IF r.ret THEN "info" ELSE "error",
                            !.verdict = IF r.ret THEN "success" ELSE "failed",
                            !.didWrite = TRUE,
                            !.r1 = [calls |-> r.calls, exc |-> r.exc, ret |-> r.ret,
                                    level |-> IF r.ret THEN "info" ELSE "error"]]
             IN  /\ last' = step
                 /\ report' = Reported(report, idx + 1, step)
                 /\ contacts' = r.cs
                 /\ pc' = IF r.raised THEN "raised" ELSE pc
                 /\ raisedBy' = IF r.raised THEN "set_alternate_contacts" ELSE raisedBy
                 /\ idx' = IF r.raised THEN idx ELSE idx + 1
          /\ nFaults' = nFaults + Cost(inj)
    /\ UNCHANGED <<run, pages, accounts, bidx, blist, buckets, loc,
                   logcfg, notif, runNo>>
    /\ UNCHANGED args
    /\ calllog' = calllog \o last'.calls
    /\ UNCHANGED gd
    /\ UNCHANGED prev

\* buckets = get_s3_bucket_names(...), at the top of the account loop of the
\* access-logging run and of the notification run
ListBuckets ==
    /\ run \in {"logging", "notif"} /\ pc = "account" /\ idx < Len(accounts)
    /\ \E inj \in Inj({"list"}, S3Faults) :
          /\ nFaults + Cost(inj) <= MaxFaults
          /\ LET a == CurrentAccount
                 r == get_s3_bucket_names(buckets, a, inj.setup, FaultAt(inj, "list"))
                 step == [NoStep EXCEPT
                            !.fn = "get_s3_bucket_names", !.acct = a,
                            !.inj = <<inj>>,
                            !.calls = r.calls, !.level = r.level, !.r1 = r]
             IN  /\ last' = step
                 /\ report' = Reported(report, idx + 1, step)
                 /\ blist' = r.ret
          /\ nFaults' = nFaults + Cost(inj)
    /\ pc' = "bucket" /\ bidx' = 0
    /\ UNCHANGED <<run, raisedBy, pages, accounts, idx, buckets, loc, logcfg, notif,
                   contacts, runNo>>
    /\ UNCHANGED args
    /\ calllog' = calllog \o last'.calls
    /\ UNCHANGED gd
    /\ UNCHANGED prev

\* The end of the bucket loop: on to the next account
NextAccountMut ==
    /\ pc = "bucket" /\ bidx = Len(blist) /\ Len(calllog) < 12
    /\ pc' = "account" /\ idx' = idx /\ bidx' = 0 /\ blist' = <<>>
    /\ UNCHANGED <<run, raisedBy, pages, accounts, buckets, loc, logcfg, notif,
                   contacts, last, report, runNo, nFaults, args, calllog>>
    /\ UNCHANGED gd
    /\ UNCHANGED prev

NextAccount ==
    /\ pc = "bucket" /\ bidx = Len(blist)
    /\ pc' = "account" /\ idx' = idx + 1 /\ bidx' = 0 /\ blist' = <<>>
    /\ UNCHANGED <<run, raisedBy, pages, accounts, buckets, loc, logcfg, notif,
                   contacts, last, report, runNo, nFaults>>
    /\ UNCHANGED args
    /\ UNCHANGED calllog
    /\ UNCHANGED gd
    /\ UNCHANGED prev

\* The end of the account loop: the run returns
Finish ==
    /\ pc = "account" /\ idx = Len(accounts)
    /\ pc' = "done"
    /\ UNCHANGED <<run, raisedBy, pages, accounts, idx, bidx, blist, buckets, loc,
                   logcfg, notif, contacts, last, report, runNo, nFaults>>
    /\ UNCHANGED args
    /\ UNCHANGED calllog
    /\ UNCHANGED gd
    /\ UNCHANGED prev

\* The two skip tests of the access-logging run: the control-tower log bucket,
\* and the bucket that is its own logging target
SkipBucketMut(bucket, access_logging_bucket_name) == bucket = ControlTowerLogs
SkipBucket(bucket, access_logging_bucket_name) ==
    \/ bucket = ControlTowerLogs
    \/ bucket = access_logging_bucket_name

\* if result == "Access Logging Not Configured": the read asks for the write
NotConfiguredMut(result) == ~StartsWith(result, "Error")
NotConfiguredAlways(result) == TRUE
NotConfigured(result) == result = "Access Logging Not Configured"

\* get_access_logging_for_all_buckets: one iteration of the bucket loop
LoggingBucket ==
    /\ run = "logging" /\ pc = "bucket" /\ bidx < Len(blist)
    /\ LET a == CurrentAccount
           b == blist[bidx + 1]
       IN  \E i1 \in Inj({"loc"}, S3Faults) :
           /\ nFaults + Cost(i1) <= MaxFaults
           /\ LET r1 == get_s3_bucket_region(loc, a, b, i1.setup, FaultAt(i1, "loc"))
                  access_logging_bucket_name == ConventionalName(Prefix, a, Fmt(r1.ret))
                  base == [NoStep EXCEPT !.fn = "access_logging", !.acct = a,
                                         !.bucket = b, !.r1 = r1, !.inj = <<i1>>,
                                         !.target = access_logging_bucket_name]
              IN  IF SkipBucket(b, access_logging_bucket_name)
                  THEN /\ last' = [base EXCEPT !.calls = r1.calls, !.level = r1.level,
                                               !.verdict = "skipped"]
                       /\ report' = Reported(report, idx + 1, last')
                       /\ logcfg' = logcfg
                       /\ nFaults' = nFaults + Cost(i1)
                  ELSE \E i2 \in Inj({"loc", "log"}, S3Faults) :
                       /\ nFaults + Cost(i1) + Cost(i2) <= MaxFaults
                       /\ LET r2 == get_s3_access_logging(loc, logcfg, a, b, i2.setup,
                                        FaultAt(i2, "loc"), FaultAt(i2, "log"))
                              read == [base EXCEPT !.didRead = TRUE, !.r2 = r2,
                                                   !.inj = <<i1, i2>>]
                          IN  IF NotConfigured(r2.ret)
                              THEN \E i3 \in Inj({"loc", "put"}, S3Faults) \cup SetupInj("rsetup") :
                                   /\ nFaults + Cost(i1) + Cost(i2) + Cost(i3) <= MaxFaults
                                   /\ LET r3 == set_s3_access_logging(loc, logcfg, a, b,
                                                    access_logging_bucket_name,
                                                    SetupAt(i3, "setup"), SetupAt(i3, "rsetup"),
                                                    FaultAt(i3, "loc"), FaultAt(i3, "put"))
                                          failed == Contains(r3.ret, "Error")
                                      IN  /\ last' = [read EXCEPT
                                                !.calls = r1.calls \o r2.calls \o r3.calls,
                                                !.didWrite = TRUE,
                                                !.inj = <<i1, i2, i3>>,
                                                !.r3 = [calls |-> r3.calls, exc |-> r3.exc,
                                                        ret |-> r3.ret, level |-> r3.level],
                                                !.level = IF failed \/ "error" \in
                                                              {r1.level, r2.level, r3.level}
                                                          THEN "error" ELSE "info",
                                                !.verdict = IF failed THEN "write_failed"
                                                            ELSE "write_ok"]
                                          /\ report' = Reported(report, idx + 1, last')
                                          /\ logcfg' = r3.G
                                          /\ nFaults' = nFaults + Cost(i1) + Cost(i2) + Cost(i3)
                              ELSE /\ last' = [read EXCEPT
                                                !.calls = r1.calls \o r2.calls,
                                                !.level = IF "error" \in {r1.level, r2.level}
                                                          THEN "error" ELSE "info",
                                                !.verdict = r2.ret]
                                   /\ report' = Reported(report, idx + 1, last')
                                   /\ logcfg' = logcfg
                                   /\ nFaults' = nFaults + Cost(i1) + Cost(i2)
    /\ bidx' = bidx + 1
    /\ UNCHANGED <<run, pc, raisedBy, pages, accounts, idx, blist, buckets, loc, notif,
                   contacts, runNo>>
    /\ UNCHANGED args
    /\ calllog' = calllog \o last'.calls
    /\ UNCHANGED gd
    /\ UNCHANGED prev

\* get_s3_bucket_notifications_for_all_buckets: one iteration of the bucket loop
NotifBucket ==
    /\ run = "notif" /\ pc = "bucket" /\ bidx < Len(blist)
    /\ LET a == CurrentAccount
           b == blist[bidx + 1]
       IN  \E i1 \in Inj({"get"}, S3Faults), i2 \in Inj({"loc", "put"}, S3Faults) \cup SetupInj("rsetup") :
           /\ nFaults + Cost(i1) + Cost(i2) <= MaxFaults
           /\ LET r == get_s3_bucket_notifications(loc, notif, a, b, Prefix, i1.setup,
                          FaultAt(i1, "get"),
                          <<SetupAt(i2, "setup"), SetupAt(i2, "rsetup"),
                            FaultAt(i2, "loc"), FaultAt(i2, "put")>>)
              IN  /\ (~r.wrote => i2 = NoInj)
                  /\ last' = [NoStep EXCEPT
                                !.fn = "notifications", !.acct = a, !.bucket = b,
                                !.inj = <<i1, i2>>,
                                !.calls = r.calls, !.level = r.level,
                                !.verdict = r.ret, !.didRead = TRUE,
                                !.didWrite = r.wrote,
                                !.r1 = [calls |-> r.calls,
                                        exc |-> IF r.wrote THEN NoFault ELSE r.exc,
                                        ret |-> r.ret, level |-> r.level],
                                !.r3 = [calls |-> <<>>,
                                        exc |-> IF r.wrote THEN r.exc ELSE NoFault,
                                        ret |-> r.setret, level |-> r.level]]
                  /\ report' = Reported(report, idx + 1, last')
                  /\ notif' = r.N
           /\ nFaults' = nFaults + Cost(i1) + Cost(i2)
    /\ bidx' = bidx + 1
    /\ UNCHANGED <<run, pc, raisedBy, pages, accounts, idx, blist, buckets, loc, logcfg,
                   contacts, runNo>>
    /\ UNCHANGED args
    /\ calllog' = calllog \o last'.calls
    /\ UNCHANGED gd
    /\ UNCHANGED prev

\* The operator runs the same command again against what the provider now holds
Rerun ==
    /\ pc = "done" /\ runNo < MaxRuns
    /\ run \in {"logging", "notif"}
    /\ pc' = "start" /\ runNo' = runNo + 1
    /\ accounts' = <<>> /\ idx' = 0 /\ bidx' = 0 /\ blist' = <<>>
    /\ last' = NoStep /\ report' = <<>>
    /\ UNCHANGED <<run, raisedBy, pages, buckets, loc, logcfg, notif, contacts, nFaults>>
    /\ UNCHANGED args
    /\ calllog' = <<>>
    /\ UNCHANGED gd
    /\ prev' = [calls |-> calllog, faults |-> nFaults]

----------------------------------------------------------------------------
(* Initial states: the command line, and what the provider holds *)

ActiveListings ==
    {<<[i \in 1..n |-> Account(AccountSeq[i], "ACTIVE")]>> : n \in 1..MaxAccounts}

ListedIds(ps) == {AccountSeq[i] : i \in 1..Len(ps[1])}

RECURSIVE Names(_)
Names(seq) == IF seq = <<>> THEN {} ELSE {Head(seq)} \cup Names(Tail(seq))

NoContacts(ids) == [a \in ids |-> [i \in 1..3 |-> PyNone]]
\* Every account of the organization has the same contact types set
ContactWorlds(ids) ==
    {[a \in ids |-> [i \in 1..3 |-> IF i \in S THEN OldContact(ContactTypes[i])
                                    ELSE PyNone]] : S \in SUBSET (1..3)}

\* prev in a first run
NoRun == [calls |-> <<>>, faults |-> 0]

\* A response of list_findings before any was received
NoResponse == [FindingIds |-> <<>>, NextToken |-> 0]

\* gd outside a guardduty run
NoGd == [pc |-> "none", detectors |-> <<>>, pages |-> <<>>, det |-> 0,
         next_token |-> 0, findings_response |-> NoResponse, archived |-> {}]

\* The flags main() declares, by argparse dest, in the order it tests them;
\* set_s3_access_logging is declared and never tested.
Flags ==
    <<"connection", "list_accounts", "get_alternate_contacts",
      "set_alternate_contacts", "s3_check", "s3_get_access_logging",
      "get_s3_bucket_notifications", "set_s3_access_logging">>

FlagSet == {Flags[i] : i \in 1..Len(Flags)}

\* The if/elif chain of main(): the run the flags select, "no_action" for the
\* else branch that logs the help hint
Dispatch(given) ==
    IF "connection" \in given THEN "connection"
    ELSE IF "list_accounts" \in given THEN "list"
    ELSE IF "get_alternate_contacts" \in given THEN "get_contacts"
    ELSE IF "set_alternate_contacts" \in given THEN "set_contacts"
    ELSE IF "s3_check" \in given THEN "s3_check"
    ELSE IF "s3_get_access_logging" \in given THEN "logging"
    ELSE IF "get_s3_bucket_notifications" \in given THEN "notif"
    ELSE "no_action"

\* The command lines of one flag that start the run r
CommandLines(r) == {{f} : f \in {g \in FlagSet : Dispatch({g}) = r}}

InitCommon ==
    /\ pc = "start" /\ raisedBy = "" /\ accounts = <<>> /\ idx = 0 /\ bidx = 0
    /\ blist = <<>> /\ last = NoStep /\ report = <<>> /\ runNo = 1 /\ nFaults = 0
    /\ calllog = <<>>
    /\ gd = NoGd
    /\ prev = NoRun

InitContacts ==
    /\ run \in {"get_contacts", "set_contacts"}
    /\ args \in CommandLines(run)
    /\ pages \in ActiveListings
    /\ contacts \in ContactWorlds(ListedIds(pages))
    /\ buckets = [a \in ListedIds(pages) |-> <<>>]
    /\ loc = <<>> /\ logcfg = <<>> /\ notif = <<>>

InitBuckets ==
    /\ run \in {"logging", "notif"}
    /\ args \in CommandLines(run)
    /\ pages \in ActiveListings
    /\ contacts = NoContacts(ListedIds(pages))
    /\ \E w \in 1..NumTemplates :
          /\ buckets = [a \in ListedIds(pages) |-> BucketLists(a)[w]]
          /\ LET all == UNION {Names(BucketLists(a)[w]) : a \in ListedIds(pages)}
             IN  /\ loc = [b \in all |-> InitialLocation(b)]
                 /\ logcfg = [b \in all |-> InitialLogging(b)]
                 /\ notif = [b \in all |-> InitialNotif(b)]

Init == InitCommon /\ (InitContacts \/ InitBuckets)

\* The organization listings of --list-accounts: each account listed once, with
\* any status, cut into pages in any way
AccountPool == {Account(id, st) : id \in AccountIds, st \in {"ACTIVE", "SUSPENDED"}}

DistinctIds(flat) ==
    \A i, j \in 1..Len(flat) : i # j => flat[i].Id # flat[j].Id

FlatListings ==
    {flat \in UNION {[1..n -> AccountPool] : n \in 0..Cardinality(AccountIds)} :
        DistinctIds(flat)}

\* cuts[i] is the number of accounts on the pages 1..i
Paginate(flat, cuts) ==
    [i \in 1..Len(cuts) |->
        SubSeq(flat, (IF i = 1 THEN 0 ELSE cuts[i - 1]) + 1, cuts[i])]

Paginations(flat) ==
    {Paginate(flat, cuts) :
        cuts \in {c \in UNION {[1..k -> 0..Len(flat)] : k \in 1..MaxPages} :
                    /\ c[Len(c)] = Len(flat)
                    /\ \A i \in 1..Len(c) :
                          LET before == IF i = 1 THEN 0 ELSE c[i - 1]
                          IN  before <= c[i] /\ c[i] - before <= MaxPageLen}}

InitList ==
    /\ InitCommon
    /\ run = "list"
    /\ args \in CommandLines(run)
    /\ \E flat \in FlatListings : pages \in Paginations(flat)
    /\ contacts = <<>> /\ buckets = <<>>
    /\ loc = <<>> /\ logcfg = <<>> /\ notif = <<>>

NextList ==
    \/ Start
    \/ ListStep
    \/ Finish

SpecList == InitList /\ [][NextList]_vars

\* main(): parse the flags, load the configuration, dispatch
Main ==
    /\ pc = "main"
    /\ run' = Dispatch(args)
    /\ pc' = "dispatched"
    /\ last' = [NoStep EXCEPT !.fn = "main",
                              !.level = "info",
                              !.verdict = IF Dispatch(args) = "no_action"
                                          THEN "No action specified. Use --help to see available options."
                                          ELSE ""]
    /\ UNCHANGED <<raisedBy, pages, accounts, idx, bidx, blist, buckets, loc, logcfg,
                   notif, contacts, report, runNo, nFaults, args>>
    /\ UNCHANGED calllog
    /\ UNCHANGED gd
    /\ UNCHANGED prev

InitCli ==
    /\ pc = "main" /\ run = "" /\ args \in SUBSET FlagSet
    /\ raisedBy = "" /\ accounts = <<>> /\ idx = 0 /\ bidx = 0
    /\ blist = <<>> /\ last = NoStep /\ report = <<>> /\ runNo = 1 /\ nFaults = 0
    /\ pages = <<>> /\ contacts = <<>> /\ buckets = <<>>
    /\ loc = <<>> /\ logcfg = <<>> /\ notif = <<>>
    /\ calllog = <<>>
    /\ gd = NoGd
    /\ prev = NoRun

NextCli == Main

SpecCli == InitCli /\ [][NextCli]_vars

Next ==
    \/ Start
    \/ GetContactsStep
    \/ SetContactsStep
    \/ ListBuckets
    \/ LoggingBucket
    \/ NotifBucket
    \/ NextAccount
    \/ Finish
    \/ Rerun

Spec == Init /\ [][Next]_vars

----------------------------------------------------------------------------
(* utils/clear_guard_duty_findings.py: archive_guardduty_findings for one    *)
(* account and region.  The provider holds, for each detector, the pages    *)
(* list_findings answers with; page i carries the NextToken i + 1 unless it *)
(* is the last one.  A call ends in one of three ways: it answers, it       *)
(* raises a boto3.exceptions.Boto3Error, or it raises an exception of       *)
(* another class (botocore's ClientError is one), which neither except      *)
(* clause of the function catches.                                          *)

MaxDetectors == 2
MaxFindingPages == 2

DetectorIds == [i \in 1..MaxDetectors |-> "detector-" \o ToString(i)]

\* A page of list_findings: FindingIds is empty or holds one id
FindingPages == {<<>>, <<"finding">>}

CallOutcomes == {"answer", "Boto3Error", "other"}

\* gd_client.list_findings(**params): the page the token names, the first one
\* when there is no token
list_findings(listing, token) ==
    LET n == IF token = 0 THEN 1 ELSE token
    IN  [FindingIds |-> listing[n],
         NextToken |-> IF n < Len(listing) THEN n + 1 ELSE 0]

\* session, client and detectors = gd_client.list_detectors()["DetectorIds"]
GdListDetectors ==
    /\ gd.pc = "list_detectors"
    /\ \E outcome \in CallOutcomes :
          gd' = [gd EXCEPT
                   !.pc = IF outcome = "other" THEN "raised"
                          ELSE IF outcome = "Boto3Error" \/ Len(gd.pages) = 0
                          THEN "returned" ELSE "for_detector",
                   !.detectors = IF outcome = "answer"
                                 THEN SubSeq(DetectorIds, 1, Len(gd.pages)) ELSE <<>>]
    /\ UNCHANGED <<run, pc, raisedBy, pages, accounts, idx, bidx, blist, buckets, loc,
                   logcfg, notif, contacts, last, report, runNo, nFaults, args,
                   calllog, prev>>

\* for detector_id in detectors: next_token = None
GdForDetector ==
    /\ gd.pc = "for_detector"
    /\ gd' = IF gd.det < Len(gd.detectors)
             THEN [gd EXCEPT !.det = @ + 1, !.next_token = 0, !.pc = "list_findings"]
             ELSE [gd EXCEPT !.pc = "returned"]
    /\ UNCHANGED <<run, pc, raisedBy, pages, accounts, idx, bidx, blist, buckets, loc,
                   logcfg, notif, contacts, last, report, runNo, nFaults, args,
                   calllog, prev>>

\* The top of the while True loop: findings_response = gd_client.list_findings(...)
GdListFindings ==
    /\ gd.pc = "list_findings"
    /\ \E outcome \in CallOutcomes :
          gd' = IF outcome = "answer"
                THEN LET r == list_findings(gd.pages[gd.det], gd.next_token)
                     IN  [gd EXCEPT !.findings_response = r,
                                    !.pc = IF r.FindingIds # <<>> THEN "archive_findings"
                                           ELSE "advance"]
                ELSE [gd EXCEPT !.pc = IF outcome = "Boto3Error" THEN "except"
                                       ELSE "raised"]
    /\ UNCHANGED <<run, pc, raisedBy, pages, accounts, idx, bidx, blist, buckets, loc,
                   logcfg, notif, contacts, last, report, runNo, nFaults, args,
                   calllog, prev>>

\* if findings: gd_client.archive_findings(DetectorId=..., FindingIds=findings)
GdArchiveFindings ==
    /\ gd.pc = "archive_findings"
    /\ \E outcome \in CallOutcomes :
          gd' = IF outcome = "answer"
                THEN [gd EXCEPT !.archived = @ \cup
                                    {<<gd.det, IF gd.next_token = 0 THEN 1
                                               ELSE gd.next_token>>},
                                !.pc = "advance"]
                ELSE [gd EXCEPT !.pc = IF outcome = "Boto3Error" THEN "except"
                                       ELSE "raised"]
    /\ UNCHANGED <<run, pc, raisedBy, pages, accounts, idx, bidx, blist, buckets, loc,
                   logcfg, notif, contacts, last, report, runNo, nFaults, args,
                   calllog, prev>>

\* next_token = findings_response.get("NextToken"); if not next_token: break
GdAdvance ==
    /\ gd.pc = "advance"
    /\ gd' = [gd EXCEPT !.next_token = gd.findings_response.NextToken,
                        !.pc = IF gd.findings_response.NextToken = 0
                               THEN "for_detector" ELSE "list_findings"]
    /\ UNCHANGED <<run, pc, raisedBy, pages, accounts, idx, bidx, blist, buckets, loc,
                   logcfg, notif, contacts, last, report, runNo, nFaults, args,
                   calllog, prev>>

\* except boto3.exceptions.Boto3Error inside the loop: the error is logged and
\* the while True loop goes round again, next_token as it was
GdExcept ==
    /\ gd.pc = "except"
    /\ gd' = [gd EXCEPT !.pc = "list_findings"]
    /\ UNCHANGED <<run, pc, raisedBy, pages, accounts, idx, bidx, blist, buckets, loc,
                   logcfg, notif, contacts, last, report, runNo, nFaults, args,
                   calllog, prev>>

\* The detectors of the region and the pages of findings of each
InitGuard ==
    /\ \E n \in 0..MaxDetectors :
          \E listing \in [1..n -> UNION {[1..k -> FindingPages] : k \in 1..MaxFindingPages}] :
              gd = [NoGd EXCEPT !.pc = "list_detectors", !.pages = listing]
    /\ run = "guardduty" /\ pc = "none" /\ args = {} /\ calllog = <<>>
    /\ raisedBy = "" /\ accounts = <<>> /\ idx = 0 /\ bidx = 0
    /\ blist = <<>> /\ last = NoStep /\ report = <<>> /\ runNo = 1 /\ nFaults = 0
    /\ pages = <<>> /\ contacts = <<>> /\ buckets = <<>>
    /\ loc = <<>> /\ logcfg = <<>> /\ notif = <<>>
    /\ prev = NoRun

NextGuard ==
    \/ GdListDetectors
    \/ GdForDetector
    \/ GdListFindings
    \/ GdArchiveFindings
    \/ GdAdvance
    \/ GdExcept

\* The interpreter keeps executing the function until it returns or raises
SpecGuard == InitGuard /\ [][NextGuard]_vars /\ WF_vars(NextGuard)

----------------------------------------------------------------------------
(* Properties *)

\* Whether the step issued a call of one of the named provider operations
Issued(step, apis) == \E i \in 1..Len(step.calls) : step.calls[i].api \in apis

\* C1: in the access-logging run, a bucket whose name is
\* {prefix}-{account}-{its own home region} is skipped: neither
\* get_bucket_logging nor put_bucket_logging is issued for it, whatever the
\* provider answers to the other calls.
C1_SelfTargetNeverTouched ==
    (/\ last.fn = "access_logging"
     /\ last.bucket = ConventionalName(Prefix, last.acct, HomeRegion(loc[last.bucket])))
    => ~Issued(last, {"get_bucket_logging", "put_bucket_logging"})

\* The pages of a listing, one after the other
RECURSIVE Flat(_)
Flat(ps) == IF ps = <<>> THEN <<>> ELSE Head(ps) \o Flat(Tail(ps))

IsActive(account) == account.Status = "ACTIVE"

\* C2: list_active_accounts returns exactly the ACTIVE accounts of the listing,
\* each once, in the order of the pages; an account with another status never
\* appears in what it returns.
C2_ExactlyActiveInOrder ==
    /\ \A i \in 1..Len(accounts) : accounts[i].Status = "ACTIVE"
    /\ (last.fn = "list_active_accounts" /\ last.inj = <<NoInj>>)
       => /\ pc # "raised"
          /\ accounts = SelectSeq(Flat(pages), IsActive)
          /\ \A i, j \in 1..Len(accounts) : i # j => accounts[i] # accounts[j]

C2_Witness ==
    /\ last.fn = "list_active_accounts" /\ last.inj = <<NoInj>>
    /\ Len(pages) = 2 /\ Len(pages[1]) = 2 /\ Len(pages[2]) = 1
    /\ pages[1][1].Status = "ACTIVE" /\ pages[1][2].Status = "SUSPENDED"
    /\ pages[2][1].Status = "ACTIVE"
    /\ accounts = <<pages[1][1], pages[2][1]>>

\* C3: list_active_accounts fails closed: whatever fails while it runs (the
\* session, the client, a page of the listing), it returns an empty sequence
\* and nothing is raised to the caller.
C3_FailsClosed ==
    (last.fn = "list_active_accounts" /\ last.inj # <<NoInj>>)
    => (pc # "raised" /\ raisedBy = "" /\ accounts = <<>>)

\* C4: partial-failure isolation.  No failure met for an account leaves the
\* account loop or the bucket loop: the run ends only after the last account,
\* every account has had its operation, and an account whose own calls all
\* succeeded is reported without an error, whatever failed for the others.
C4_FailureIsolated ==
    /\ pc = "raised" => raisedBy = "list_active_accounts"
    /\ pc = "done" =>
          /\ idx = Len(accounts)
          /\ \A i \in 1..Len(accounts) : report[i].levels # {}
    /\ \A i \in 1..Len(report) :
          report[i].seen = {"ok"} => report[i].levels = {"info"}

C4_Witness ==
    /\ run = "logging" /\ pc = "done" /\ Len(accounts) = 2
    /\ report[1].seen = {"fail"} /\ report[1].levels = {"error"}
    /\ report[2].seen = {"ok"} /\ report[2].levels = {"info"}
    /\ last.acct = accounts[2].Id /\ last.verdict = "write_ok"

\* A notification configuration with at least one subscription of any kind
AnySubscription(cfg) ==
    Len(cfg.TopicConfigurations) + Len(cfg.QueueConfigurations)
        + Len(cfg.LambdaFunctionConfigurations) > 0

\* C5: a bucket whose notification configuration holds at least one topic,
\* queue or function subscription is never written by the notification run:
\* no step changes its configuration, and the step that visits it issues no
\* put_bucket_notification_configuration, in the first run or in a later one;
\* when its read succeeds the bucket is reported as having notifications.
C5_ConfiguredLeftAlone ==
    [][ /\ \A b \in DOMAIN notif :
              AnySubscription(notif[b]) => notif'[b] = notif[b]
        /\ (/\ run = "notif" /\ pc = "bucket" /\ bidx' = bidx + 1
            /\ AnySubscription(notif[blist[bidx + 1]]))
           => /\ ~Issued(last', {"put_bucket_notification_configuration"})
              /\ (last'.r1.exc = NoFault
                  => last'.verdict = "Notifications enabled") ]_vars

C5_Witness ==
    /\ run = "notif" /\ runNo = 2 /\ last.fn = "notifications"
    /\ IsLegacy(last.bucket)
    /\ last.verdict = "Notifications enabled"
    /\ notif[last.bucket] = NotificationConfig(<<"arn:aws:sns:topic">>, <<>>, <<>>)

ContactField(ret, i) ==
    IF i = 1 THEN ret.BillingContact
    ELSE IF i = 2 THEN ret.OperationsContact ELSE ret.SecurityContact

\* C6: when the provider answers not-found for some of the three contact types
\* and answers the others, get_alternate_contacts returns a result without an
\* error in which exactly those types are None and the others hold the record
\* read; all three types are read, in order, and a None is shown as "Not Set".
C6_NotSetIsNotAnError ==
    (last.fn = "get_alternate_contacts" /\ last.inj = <<NoInj>>)
    => LET ret == last.r1.ret
           held == contacts[last.acct]
       IN  /\ ~ret.hasError /\ last.level = "info"
           /\ [i \in 1..Len(last.calls) |-> last.calls[i].arg] = ContactTypes
           /\ \A i \in 1..3 :
                 /\ held[i].t = "none" => ContactField(ret, i) = PyNone
                 /\ held[i].t # "none" => ContactField(ret, i) = held[i]
                 /\ (format_contact(ContactField(ret, i)) = "Not Set")
                        <=> held[i].t = "none"

C6_Witness ==
    /\ last.fn = "get_alternate_contacts" /\ last.inj = <<NoInj>>
    /\ contacts[last.acct][1] = PyNone
    /\ contacts[last.acct][2] = OldContact("OPERATIONS")
    /\ contacts[last.acct][3] = PyNone
    /\ last.r1.ret.BillingContact = PyNone
    /\ last.r1.ret.OperationsContact = OldContact("OPERATIONS")
    /\ ~last.r1.ret.hasError

\* C7: every put_bucket_logging of the access-logging run names as target
\* {prefix}-{account}-{the bucket's own home region}, with an empty target
\* prefix and EventTime partitioning.
C7_TargetFromOwnRegion ==
    last.fn = "access_logging"
    => \A i \in 1..Len(last.calls) :
          last.calls[i].api = "put_bucket_logging"
          => last.calls[i].body =
                [TargetBucket |-> ConventionalName(Prefix, last.acct,
                                                   HomeRegion(loc[last.bucket])),
                 TargetPrefix |-> "", PartitionDateSource |-> "EventTime"]

\* C8: get_s3_bucket_region never returns None; when the location call
\* succeeds it returns "us-east-1" for an absent or null LocationConstraint and
\* the location itself otherwise; the lookup inside get_s3_access_logging
\* arrives at the same region for the same bucket.
C8_RegionNormalized ==
    last.fn = "access_logging"
    => LET home == PyStr(HomeRegion(loc[last.bucket]))
       IN  /\ last.r1.ret.t = "str"
           /\ last.inj[1] = NoInj => last.r1.ret = home
           /\ (last.didRead /\ last.inj[2].site \notin {"setup", "loc"})
              => /\ last.r2.region = home
                 /\ last.inj[1] = NoInj => last.r2.region = last.r1.ret

C8_Witness ==
    /\ last.fn = "access_logging" /\ IsArchive(last.bucket)
    /\ loc[last.bucket] = LocationResponse(TRUE, PyNone)
    /\ last.didRead /\ last.inj[1] = NoInj /\ last.inj[2] = NoInj
    /\ last.r1.ret = PyStr("us-east-1") /\ last.r2.region = PyStr("us-east-1")

\* The place of a contact type in the order of the writes, 0 for none
TypeIndex(type) ==
    IF type = "BILLING" THEN 1 ELSE IF type = "OPERATIONS" THEN 2
    ELSE IF type = "SECURITY" THEN 3 ELSE 0

\* C9: set_alternate_contacts writes Billing, Operations, Security in this
\* order and reads nothing; when the write of one type fails, the types before
\* it stay written, the types after it are not attempted, and it returns
\* False; it returns True exactly when all three writes succeeded.
C9_PartialWriteKept ==
    last.fn = "set_alternate_contacts"
    => LET inj == last.inj[1]
           k == TypeIndex(inj.site)
           held == contacts[last.acct]
           n == Len(last.calls)
       IN  /\ ~Issued(last, {"get_alternate_contact"})
           /\ \A i \in 1..n : /\ last.calls[i].api = "put_alternate_contact"
                              /\ last.calls[i].arg = ContactTypes[i]
           /\ last.r1.ret = (inj = NoInj)
           /\ inj = NoInj =>
                 /\ n = 3
                 /\ \A i \in 1..3 : last.calls[i].ok
                                    /\ held[i] = ConfigContact(ContactTypes[i])
           /\ inj.site = "setup" =>
                 /\ n = 0
                 /\ \A i \in 1..3 : held[i] # ConfigContact(ContactTypes[i])
           /\ k > 0 =>
                 /\ n = k /\ ~last.calls[k].ok
                 /\ \A i \in 1..(k - 1) :
                       last.calls[i].ok /\ held[i] = ConfigContact(ContactTypes[i])
                 /\ \A i \in k..3 : held[i] # ConfigContact(ContactTypes[i])

C9_Witness ==
    /\ last.fn = "set_alternate_contacts"
    /\ last.inj[1].site = "OPERATIONS"
    /\ last.r1.ret = FALSE /\ Len(last.calls) = 2
    /\ contacts[last.acct][1] = ConfigContact("BILLING")
    /\ contacts[last.acct][2] = OldContact("OPERATIONS")
    /\ contacts[last.acct][3] = OldContact("SECURITY")

\* Every function of the step that a failure ended, with the value it returned
\* written as text
Outcomes(step) ==
    {o \in
        (IF step.fn = "get_alternate_contacts"
         THEN {<<step.r1.exc, step.r1.ret.Error>>}
         ELSE IF step.fn = "set_alternate_contacts"
         THEN {<<step.r1.exc, IF step.r1.ret THEN "True" ELSE "False">>}
         ELSE IF step.fn = "access_logging"
         THEN {<<step.r1.exc, step.r1.ret.s>>}
              \cup (IF step.didRead THEN {<<step.r2.exc, step.r2.ret>>} ELSE {})
              \cup (IF step.didWrite THEN {<<step.r3.exc, step.r3.ret>>} ELSE {})
         ELSE IF step.fn = "notifications"
         THEN {<<step.r1.exc, step.r1.ret>>}
              \cup (IF step.didWrite THEN {<<step.r3.exc, step.r3.ret>>} ELSE {})
         ELSE {}) :
        o[1] # NoFault}

\* An access-denied failure is named as such in the value returned; any other
\* provider error leaves its code there, any other failure its message.
Classified(exc, text) ==
    IF exc.kind = "client" /\ exc.val \in {"AccessDenied", "AccessDeniedException"}
    THEN Contains(text, "AccessDenied")
    ELSE Contains(text, exc.val)

\* C10 as claimed: for contacts, access logging and notifications, on reads and
\* on writes, the value a failed operation returns tells access denied from
\* any other provider error, carries the raw code of any other provider
\* error, and the message of an unclassified failure.
C10_FailuresClassified ==
    \A o \in Outcomes(last) : Classified(o[1], o[2])

\* C10 as amended: the classification holds of the contact reads and of the
\* reads and writes of access logging and notifications; set_alternate_contacts
\* returns False for every failure, of whatever kind.
C10_ClassifiedButContactWrites ==
    \A o \in Outcomes(last) :
        IF last.fn = "set_alternate_contacts" THEN o[2] = "False"
        ELSE Classified(o[1], o[2])

C10_Witness ==
    /\ last.fn = "access_logging" /\ last.didWrite
    /\ last.r3.exc = ClientError("AccessDenied")
    /\ last.r3.ret = "Error: AccessDenied"
    /\ Issued(last, {"put_bucket_logging"})

\* The provider writes, and for each the read of the same property
WriteApis ==
    {"put_alternate_contact", "put_bucket_logging",
     "put_bucket_notification_configuration"}

ReadApiOf(api) ==
    IF api = "put_alternate_contact" THEN "get_alternate_contact"
    ELSE IF api = "put_bucket_logging" THEN "get_bucket_logging"
    ELSE "get_bucket_notification_configuration"

\* The call at place i of the step comes after a successful read of the same
\* property of the same resource
ReadBefore(step, i) ==
    \E j \in 1..(i - 1) :
        /\ step.calls[j].api = ReadApiOf(step.calls[i].api)
        /\ step.calls[j].ok
        /\ step.calls[j].acct = step.calls[i].acct
        /\ step.calls[j].bucket = step.calls[i].bucket
        /\ step.calls[i].api = "put_alternate_contact"
              => step.calls[j].arg = step.calls[i].arg

\* C11 as claimed: for contacts, access logging and notifications, every
\* provider write of a step comes after a successful read, in the same step, of
\* that resource's state, and that state differed from the desired one (the
\* contact record was not the configured one, logging was not enabled, no
\* subscription existed).
C11_ReadCompareWrite ==
    [][ \A i \in 1..Len(last'.calls) :
            (last' # last /\ last'.calls[i].api \in WriteApis)
            => /\ ReadBefore(last', i)
               /\ LET c == last'.calls[i]
                  IN  IF c.api = "put_alternate_contact"
                      THEN contacts[c.acct][TypeIndex(c.arg)] # ConfigContact(c.arg)
                      ELSE IF c.api = "put_bucket_logging"
                      THEN logcfg[c.bucket] = ""
                      ELSE ~AnySubscription(notif[c.bucket]) ]_vars

\* C11 as amended: the cycle holds of access logging and of notifications;
\* the contact write reads nothing and writes all three types whatever the
\* account holds.
C11_ReadCompareWriteStorage ==
    [][ /\ \A i \in 1..Len(last'.calls) :
              (last' # last /\ last'.calls[i].api \in
                    {"put_bucket_logging", "put_bucket_notification_configuration"})
              => /\ ReadBefore(last', i)
                 /\ LET c == last'.calls[i]
                    IN  IF c.api = "put_bucket_logging"
                        THEN logcfg[c.bucket] = ""
                        ELSE ~AnySubscription(notif[c.bucket])
        /\ (last' # last /\ last'.fn = "set_alternate_contacts")
           => /\ ~Issued(last', {"get_alternate_contact"})
              /\ (last'.inj = <<NoInj>> =>
                    [i \in 1..Len(last'.calls) |-> last'.calls[i].api]
                        = [i \in 1..3 |-> "put_alternate_contact"]) ]_vars

C11_Witness ==
    /\ last.fn = "access_logging" /\ last.verdict = "write_ok"
    /\ [i \in 1..Len(last.calls) |-> last.calls[i].api]
          = <<"get_bucket_location", "get_bucket_location", "get_bucket_logging",
              "get_bucket_location", "put_bucket_logging">>
    /\ \A i \in 1..Len(last.calls) : last.calls[i].ok
    /\ logcfg[last.bucket] = last.target

\* The places of the step's calls of one provider operation
CallsOf(step, api) == {i \in 1..Len(step.calls) : step.calls[i].api = api}

\* The address of the conventional queue of an account in a region
QueueAddress(prefix, a, region) ==
    "arn:aws:sqs:" \o region \o ":" \o a \o ":" \o prefix \o "-" \o a \o "-" \o region

\* C12: the step of the notification run that visits a bucket B of account A
\* holding no topic, queue or function subscription issues one
\* put_bucket_notification_configuration for B when none of its calls fails (and
\* none otherwise, never two); the put carries a single queue subscription to
\* the queue {prefix}-{A}-{R} in region R of account A, R being B's home
\* region, for the events reduced-redundancy-lost-object and
\* replication-failed; after it B holds that subscription and no other.
C12_OneQueueSubscription ==
    [][ (/\ run = "notif" /\ pc = "bucket" /\ bidx' = bidx + 1
         /\ ~AnySubscription(notif[blist[bidx + 1]]))
        => LET b == blist[bidx + 1]
               a == accounts[idx + 1].Id
               arn == QueueAddress(Prefix, a, HomeRegion(loc[b]))
               puts == CallsOf(last', "put_bucket_notification_configuration")
           IN  /\ Cardinality(puts) <= 1
               /\ ~Issued(last', {"put_bucket_logging", "put_alternate_contact"})
               /\ \A i \in puts :
                     /\ last'.calls[i].acct = a /\ last'.calls[i].bucket = b
                     /\ last'.calls[i].arg = arn
                     /\ last'.calls[i].events =
                           <<"s3:ReducedRedundancyLostObject",
                             "s3:Replication:OperationFailedReplication">>
               /\ last'.inj = <<NoInj, NoInj>> =>
                     /\ Cardinality(puts) = 1
                     /\ notif'[b] = [TopicConfigurations |-> <<>>,
                                     QueueConfigurations |-> <<arn>>,
                                     LambdaFunctionConfigurations |-> <<>>]
               /\ \A o \in DOMAIN notif : o # b => notif'[o] = notif[o] ]_vars

C12_Witness ==
    /\ last.fn = "notifications" /\ last.didWrite /\ last.inj = <<NoInj, NoInj>>
    /\ last.acct = "111111111111" /\ last.bucket = DataBucket("111111111111")
    /\ Cardinality(CallsOf(last, "put_bucket_notification_configuration")) = 1
    /\ notif[last.bucket].QueueConfigurations =
          <<"arn:aws:sqs:eu-west-1:111111111111:sec-logs-111111111111-eu-west-1">>

\* The operation each flag is declared for
OwnOperation(flag) ==
    IF flag = "connection" THEN "connection"
    ELSE IF flag = "list_accounts" THEN "list"
    ELSE IF flag = "get_alternate_contacts" THEN "get_contacts"
    ELSE IF flag = "set_alternate_contacts" THEN "set_contacts"
    ELSE IF flag = "s3_check" THEN "s3_check"
    ELSE IF flag = "s3_get_access_logging" THEN "logging"
    ELSE IF flag = "set_s3_access_logging" THEN "set_logging"
    ELSE "notif"

\* C13: a flag given alone runs the operation it is declared for; whatever
\* flags are given one operation at most is dispatched; the help hint is logged
\* and nothing runs only when no flag is given.
C13_Dispatch ==
    pc = "dispatched"
    => /\ \A f \in FlagSet : args = {f} => run = OwnOperation(f)
       /\ run \in {OwnOperation(f) : f \in args} \cup {"no_action"}
       /\ run = "no_action" <=> args = {}

\* The value a function returned is an error value
IsErrorValue(fn, ret) ==
    IF fn = "get_alternate_contacts" THEN ret.hasError
    ELSE IF fn = "set_alternate_contacts" THEN ret = FALSE
    ELSE IF fn = "get_s3_bucket_region" THEN StartsWith(ret.s, "Error")
    ELSE StartsWith(ret, "Error")

\* The functions the step called, each with the calls it issued, the exception
\* that a failed call raised in it (NoFault when none) and the value it returned
Returned(step) ==
    IF step.fn \in {"get_alternate_contacts", "set_alternate_contacts"}
    THEN {<<step.fn, step.r1.calls, step.r1.exc, step.r1.ret>>}
    ELSE IF step.fn = "access_logging"
    THEN {<<"get_s3_bucket_region", step.r1.calls, step.r1.exc, step.r1.ret>>}
         \cup (IF step.didRead
               THEN {<<"get_s3_access_logging", step.r2.calls, step.r2.exc, step.r2.ret>>}
               ELSE {})
         \cup (IF step.didWrite
               THEN {<<"set_s3_access_logging", step.r3.calls, step.r3.exc, step.r3.ret>>}
               ELSE {})
    ELSE IF step.fn = "notifications"
    THEN {<<"get_s3_bucket_notifications", step.r1.calls,
            IF step.didWrite THEN step.r3.exc ELSE step.r1.exc, step.r1.ret>>}
    ELSE {}

\* C14: a reconciliation operation in which a provider call failed returns an
\* error value; so does get_s3_bucket_notifications when the write it makes, or
\* the region lookup inside that write, fails.
C14_FailureReturned ==
    \A o \in Returned(last) :
        (o[3] # NoFault /\ AnyCall(o[2], FALSE)) => IsErrorValue(o[1], o[4])

\* The operation and the resource of a call: the account, the bucket and, for a
\* contact call, the contact type
CallKey(c) ==
    <<c.api, c.acct, c.bucket,
      IF c.api \in {"get_alternate_contact", "put_alternate_contact"} THEN c.arg ELSE "">>

\* How many calls of the run so far have the key of the call at place i
TimesIssued(i) ==
    Cardinality({j \in 1..Len(calllog) : CallKey(calllog[j]) = CallKey(calllog[i])})

C16_NoTargetFromError ==
    (last.fn = "access_logging" /\ StartsWith(last.r1.ret.s, "Error"))
    => \A i \in CallsOf(last, "put_bucket_logging") :
          last.calls[i].body.TargetBucket
              # Prefix \o "-" \o last.acct \o "-" \o last.r1.ret.s

\* C17: in the access-logging run a put_bucket_logging for a bucket is issued
\* only when the logging read of the same step succeeded and reported logging
\* as not configured; when the read reports logging enabled, to whatever
\* target, or returns an error, the step issues no put_bucket_logging and the
\* logging configuration of every bucket stays as it was.
C17_WriteOnlyWhenReadSaysOff ==
    [][ (run = "logging" /\ pc = "bucket" /\ bidx' = bidx + 1)
        => LET b == blist[bidx + 1]
               wrote == Issued(last', {"put_bucket_logging"})
           IN  /\ wrote =>
                     /\ last'.didRead /\ last'.r2.exc = NoFault
                     /\ last'.r2.ret = "Access Logging Not Configured"
                     /\ logcfg[b] = ""
                     /\ \A i \in CallsOf(last', "put_bucket_logging") :
                           /\ last'.calls[i].bucket = b
                           /\ \E j \in 1..(i - 1) :
                                 /\ last'.calls[j].api = "get_bucket_logging"
                                 /\ last'.calls[j].bucket = b /\ last'.calls[j].ok
               /\ (\/ logcfg[b] # ""
                   \/ (last'.didRead /\ last'.r2.exc # NoFault))
                  => ~wrote /\ logcfg' = logcfg
               /\ \A o \in DOMAIN logcfg : o # b => logcfg'[o] = logcfg[o] ]_vars

C17_Witness ==
    /\ last.fn = "access_logging" /\ IsLegacy(last.bucket)
    /\ last.didRead /\ ~last.didWrite
    /\ last.r2.ret = "Access logging configured. Destination bucket: legacy-logs"
    /\ logcfg[last.bucket] = "legacy-logs"
    /\ ~Issued(last, {"put_bucket_logging"})

\* C18: whatever the provider answers, region lookups that fail included, no
\* put_bucket_logging of the run names as target the bucket it configures, and
\* none is issued for the control-tower log bucket.
C18_SelfLoggingGuard ==
    \A i \in 1..Len(calllog) :
        calllog[i].api = "put_bucket_logging"
        => /\ calllog[i].body.TargetBucket # calllog[i].bucket
           /\ calllog[i].bucket # ControlTowerLogs

C18_Witness ==
    /\ last.fn = "access_logging"
    /\ last.bucket = "sec-logs-" \o last.acct \o "-us-east-1"
    /\ StartsWith(last.r1.ret.s, "Error")
    /\ \E i \in 1..Len(calllog) :
          /\ calllog[i].api = "put_bucket_logging"
          /\ calllog[i].bucket = last.bucket
          /\ calllog[i].body.TargetBucket = last.target

\* C19: archive_guardduty_findings comes to an end, by returning or by an
\* exception that leaves it, whatever the provider's calls answer: a failing
\* list_findings or archive_findings does not make the loop ask for the same
\* page again for ever.
C19_Terminates == <>(gd.pc \in {"returned", "raised"})

\* The buckets for which the calls hold a put_bucket_logging, answered as ok says
LoggingWrites(calls, ok) ==
    {calls[i].bucket : i \in {j \in 1..Len(calls) :
                                 /\ calls[j].api = "put_bucket_logging"
                                 /\ calls[j].ok = ok}}

\* Every failure the provider has answered with during the current run was a
\* failed put_bucket_logging: no read of the run failed
ReadsAnswered ==
    nFaults - prev.faults =
        Cardinality({j \in 1..Len(calllog) :
                        calllog[j].api = "put_bucket_logging" /\ ~calllog[j].ok})

\* C20: the provider's state changing only by the run's own writes, a second
\* run of get_access_logging_for_all_buckets issues no put_bucket_logging for a
\* bucket whose put succeeded in the run before it; and when the run before it
\* met no failure, so that each of its writes succeeded, and the reads of the
\* second run are answered, the second run issues no put_bucket_logging at all.
C20_Converges ==
    (run = "logging" /\ runNo >= 2)
    => LET again == LoggingWrites(calllog, TRUE) \cup LoggingWrites(calllog, FALSE)
       IN  /\ again \cap LoggingWrites(prev.calls, TRUE) = {}
           /\ (prev.faults = 0 /\ ReadsAnswered) => again = {}

C20_Witness ==
    /\ run = "logging" /\ runNo = 2 /\ pc = "done"
    /\ LoggingWrites(prev.calls, TRUE) = {"data-111111111111", "data-222222222222"}
    /\ prev.faults = 0 /\ nFaults = 0
    /\ Cardinality(CallsOf([calls |-> calllog], "get_bucket_logging")) = 2
    /\ LoggingWrites(calllog, TRUE) \cup LoggingWrites(calllog, FALSE) = {}

====
